---- MODULE Spec2Model ----
(***************************************************************************)
(* The offline caching worker of the Fire Operations Guide                 *)
(* (src/service-worker.js) as a state machine: the install, fetch and      *)
(* activate listeners, each split at the points where its promise chain    *)
(* yields to the host, over a model of the browser's CacheStorage.          *)
(*                                                                         *)
(* A deployed worker version v carries the generation tag CACHE_NAME(v).   *)
(* The host runs the lifecycle of the versions one after another: version  *)
(* v installs once version v-1 is activated or has failed, it is activated *)
(* only when the active version has no fetch event whose respondWith       *)
(* promise is unsettled, and fetch events go to the activated version.     *)
(* What a fetch handler started without handing it to respondWith or       *)
(* waitUntil is not waited for: it may run after its worker was replaced,  *)
(* or be dropped with the worker.                                          *)
(*                                                                         *)
(* The page controller (src/app.js) is modelled next to it: page           *)
(* navigation, the PDF viewing state and the loads of documents that are   *)
(* still in flight.  The two parts share no state; Spec runs the worker,   *)
(* AppSpec the page controller.                                            *)
(***************************************************************************)
EXTENDS Integers, Sequences, FiniteSets, TLC

\* ---------------------------------------------------------------- bounds
MaxGen == 2        \* worker versions (cache generations) deployed
MaxFetch == 2      \* fetch events dispatched in one behaviour

Versions == 1..MaxGen
Events == 1..MaxFetch
\* The contents the server may serve for a document.
Bodies == {1, 2}

\* ------------------------------------------------- src/service-worker.js
\* const CACHE_NAME = 'fire-ops-v1': the tag of worker version v.
CACHE_NAME(v) == v

urlsToCache == <<"/", "/index.html", "/style.css", "/app.js", "/manifest.json">>

Manifest == {urlsToCache[i] : i \in 1..Len(urlsToCache)}
Documents == {"/doc.pdf"}
CrossOrigin == {"https://cdnjs.cloudflare.com/pdf.worker.min.js"}
Requests == Manifest \cup Documents \cup CrossOrigin
\* The requests the page issues in the checked behaviours.
FetchRequests == {"/index.html"} \cup Documents \cup CrossOrigin

\* ------------------------------------------------------------- responses
\* A response: status, type and body; `by` and `via` record which worker
\* version stored it and through which listener (0 / "net" while it is only
\* a network response).
Resp(s, t, b) == [status |-> s, type |-> t, body |-> b, by |-> 0, via |-> "net"]
\* The value a promise resolves with when there is no response.
undefined == [status |-> 0, type |-> "undefined", body |-> 0, by |-> 0, via |-> "none"]
\* fetch() rejected: the network request itself failed.
TypeError == [status |-> 0, type |-> "TypeError", body |-> 0, by |-> 0, via |-> "none"]

\* What the network can answer to request r.
NetworkOutcomes(r) ==
  IF r \in CrossOrigin
    THEN {Resp(200, "cors", 1), Resp(0, "opaque", 1), TypeError}
    ELSE {Resp(200, "basic", b) : b \in Bodies}
         \cup {Resp(404, "basic", 0), TypeError}

\* What the network can answer to the requests of cache.addAll(urlsToCache)
\* while version v installs: outs[i] answers urlsToCache[i]. Every path is
\* served with status 200 (the first one possibly with another success
\* status), or one path gets an error status or no answer at all.
AddAllOutcomes(v) ==
  LET ok == [i \in 1..Len(urlsToCache) |-> Resp(200, "basic", v)]
  IN {ok, [ok EXCEPT ![1] = Resp(204, "basic", 0)]}
     \cup {[ok EXCEPT ![i] = bad] :
             i \in 1..Len(urlsToCache), bad \in {Resp(404, "basic", 0), TypeError}}

Stored(resp, v, how) == [resp EXCEPT !.by = v, !.via = how]

\* ---------------------------------------------------------- CacheStorage
\* caches: the stores in creation order, each a name and its entries.
EmptyEntries == [r \in Requests |-> undefined]

StoreNames(cs) == {cs[i].name : i \in 1..Len(cs)}

\* caches.keys()
Keys(cs) == [i \in 1..Len(cs) |-> cs[i].name]

\* caches.open(name): create-if-absent.
Open(cs, n) ==
  IF n \in StoreNames(cs) THEN cs
  ELSE Append(cs, [name |-> n, entries |-> EmptyEntries])

\* caches.delete(name)
Delete(cs, n) == SelectSeq(cs, LAMBDA s : s.name # n)

\* Put that replaces the entries of the store by the one written.
PutReplacing(cs, n, r, resp) ==
  [i \in 1..Len(cs) |->
     IF cs[i].name = n
       THEN [cs[i] EXCEPT !.entries = [EmptyEntries EXCEPT ![r] = resp]]
       ELSE cs[i]]

\* cache.put(request, response) on the store named n (no effect if absent:
\* the cache object then is no longer part of the storage).
Put(cs, n, r, resp) ==
  [i \in 1..Len(cs) |->
     IF cs[i].name = n
       THEN [cs[i] EXCEPT !.entries = [@ EXCEPT ![r] = resp]]
       ELSE cs[i]]

\* cache.match(request) on the store named n.
Lookup(cs, n, r) ==
  IF \E i \in 1..Len(cs) : cs[i].name = n
    THEN cs[CHOOSE i \in 1..Len(cs) : cs[i].name = n].entries[r]
    ELSE undefined

\* caches.match(request): the first match over all stores, in creation order.
CachesMatch(cs, r) ==
  LET hits == {i \in 1..Len(cs) : cs[i].entries[r] # undefined}
  IN IF hits = {} THEN undefined
     ELSE cs[CHOOSE i \in hits : \A j \in hits : i <= j].entries[r]

VARIABLES
  caches,      \* the origin's CacheStorage
  state,       \* state[v]: lifecycle state of worker version v
  active,      \* the registration's active worker version, 0 if none
  installPc,   \* position of the running install listener
  cacheNames,  \* the enumeration the running activate listener got
  activatePc,  \* position of the running activate listener
  pending,     \* caches.delete calls of the activate listener still running
  deleted,     \* names the running activate listener has deleted
  events       \* events[h]: the fetch event h and its handler's position

\* The page controller (src/app.js), which runs in the page.  A scale is
\* counted in hundredths: 1.5 is 150 and the step 0.25 is 25; every value
\* the code computes is a multiple of 0.25 below 4, which binary floating
\* point represents exactly, so the integers behave as the code's numbers.
VARIABLES
  previousPage, \* the id showPage remembered
  activePages,  \* the elements of class 'page' that carry the class 'active'
  pdfDoc,       \* the loaded document, null when there is none
  currentPage,  \* the page number shown
  scale,        \* the zoom scale
  loading,      \* the loadPDF calls still awaiting pdfjsLib.getDocument
  shown,        \* history: the id the last showPage call got ("" before any)
  lastShown,    \* history: the last id other than 'viewer-page' given to showPage
  closed,       \* history: closeDocument ran and openDocument was not called since
  justClosed    \* history: closeDocument was the last navigation call

workerVars == <<caches, state, active, installPc, activatePc, cacheNames, pending,
                deleted, events>>

appVars == <<previousPage, activePages, pdfDoc, currentPage, scale, loading,
             shown, lastShown, closed, justClosed>>

vars == <<caches, state, active, installPc, activatePc, cacheNames, pending,
          deleted, events, appVars>>

\* The ids the callers of showPage use: the two pages the code names, one
\* more page of the document, and an id no element has.
Pages == {"home-page", "viewer-page", "guides-page"}
PageIds == Pages \cup {"missing-page"}

\* Page counts of the PDF documents and the number of loads in flight.
MaxPages == 3
MaxLoads == 2

INITIAL_SCALE == 150
MAX_SCALE == 300
MIN_SCALE == 50
SCALE_STEP == 25

null == [numPages |-> 0]

\* What openDocument is called with: a PDF of n pages or an image.
DocumentPaths ==
  [extension : {"pdf"}, numPages : 1..MaxPages] \cup [extension : {"png"}, numPages : {0}]

\* The page's state when app.js has been evaluated.
AppInit ==
  /\ previousPage = "home-page"
  /\ activePages = {"home-page"}
  /\ pdfDoc = null
  /\ currentPage = 1
  /\ scale = INITIAL_SCALE
  /\ loading = <<>>
  /\ shown = ""
  /\ lastShown = "home-page"
  /\ closed = FALSE
  /\ justClosed = FALSE

\* A fetch event: pc is the handler's position (match1: first caches.match
\* pending, net: fetch pending, match2: second caches.match pending, open:
\* response returned and caches.open pending, put: cache.put pending, done),
\* req the request, gen the version handling it, first / net / second what
\* the two lookups and the network gave, result what respondWith got,
\* netCalls the network requests issued, live whether the cache object held
\* is still part of the storage, wrote whether the put reached a store, and
\* after whether, when the event was dispatched, the network's response
\* (status 200, type basic) to the same request had already been returned
\* to the page by an event of the same generation.
IdleEvent ==
  [pc |-> "idle", req |-> "/", gen |-> 0, first |-> undefined, net |-> undefined,
   second |-> undefined, result |-> undefined, netCalls |-> 0, live |-> FALSE,
   wrote |-> FALSE, after |-> FALSE]

Init ==
  /\ caches = <<>>
  /\ state = [v \in Versions |-> "parsed"]
  /\ active = 0
  /\ installPc = "idle"
  /\ activatePc = "idle"
  /\ cacheNames = <<>>
  /\ pending = {}
  /\ deleted = {}
  /\ events = [h \in Events |-> IdleEvent]
  /\ AppInit

\* ------------------------------------------------------ install listener
\* The host dispatches 'install' to version v; the listener calls
\* caches.open(CACHE_NAME) inside event.waitUntil.
InstallStart(v) ==
  /\ state[v] = "parsed"
  /\ IF v = 1 THEN TRUE ELSE state[v - 1] \in {"activated", "redundant"}
  /\ state' = [state EXCEPT ![v] = "installing"]
  /\ installPc' = "open"
  /\ UNCHANGED appVars
  /\ UNCHANGED <<caches, active, activatePc, cacheNames, pending, deleted, events>>

\* caches.open resolves; the callback calls cache.addAll(urlsToCache).
InstallOpen(v) ==
  /\ state[v] = "installing"
  /\ installPc = "open"
  /\ caches' = Open(caches, CACHE_NAME(v))
  /\ installPc' = "addAll"
  /\ UNCHANGED appVars
  /\ UNCHANGED <<state, active, activatePc, cacheNames, pending, deleted, events>>

\* AddAllAccepts without the status test (what a fetch followed by cache.put
\* would take).
AddAllAcceptsAnyStatus(resp) == resp # TypeError

\* cache.addAll takes a response only with an ok status (200..299, not 206).
AddAllAccepts(resp) ==
  /\ resp # TypeError
  /\ resp.status >= 200 /\ resp.status <= 299 /\ resp.status # 206

\* AddAllRejected with the entries written one by one, as each response
\* arrived, instead of in one batch at the end.
AddAllRejectedPartial(cs, v, got) ==
  LET Step(c, i) ==
        IF AddAllAccepts(got[i])
          THEN Put(c, CACHE_NAME(v), urlsToCache[i], Stored(got[i], v, "install"))
          ELSE c
  IN Step(Step(Step(Step(Step(cs, 1), 2), 3), 4), 5)

\* cache.addAll rejected: nothing is written.
AddAllRejected(cs, v, got) == cs

\* cache.addAll got every response: all are written in one batch.
RECURSIVE AddAllCommit(_, _, _)
AddAllCommit(cs, v, got) ==
  IF got = <<>> THEN cs
  ELSE LET i == Len(got)
       IN Put(AddAllCommit(cs, v, SubSeq(got, 1, i - 1)), CACHE_NAME(v),
              urlsToCache[i], Stored(got[i], v, "install"))

\* cache.addAll settles, and with it the waitUntil promise: outs[i] is what
\* the network answered to urlsToCache[i]. On a rejection the host discards
\* the version.
InstallAddAll(v, outs) ==
  /\ state[v] = "installing"
  /\ installPc = "addAll"
  /\ IF \A i \in 1..Len(urlsToCache) : AddAllAccepts(outs[i])
       THEN /\ caches' = AddAllCommit(caches, v, outs)
            /\ state' = [state EXCEPT ![v] = "installed"]
       ELSE /\ caches' = AddAllRejected(caches, v, outs)
            /\ state' = [state EXCEPT ![v] = "redundant"]
  /\ installPc' = "idle"
  /\ UNCHANGED appVars
  /\ UNCHANGED <<active, activatePc, cacheNames, pending, deleted, events>>

\* ----------------------------------------------------- activate listener
\* const cacheWhitelist = [CACHE_NAME]
cacheWhitelist(v) == {CACHE_NAME(v)}

\* IsStale with the test inverted (!== -1).
IsStaleInverted(v, cacheName) == cacheName \in cacheWhitelist(v)

\* cacheWhitelist.indexOf(cacheName) === -1
IsStale(v, cacheName) == cacheName \notin cacheWhitelist(v)

\* A fetch event keeps its worker busy until its respondWith promise settles.
Unsettled(e) == e.pc \in {"match1", "net", "match2"}

\* The host makes the waiting version v the active one (the version it
\* replaces becomes redundant) and dispatches 'activate': the listener calls
\* caches.keys() inside event.waitUntil.
ActivateStart(v) ==
  /\ state[v] = "installed"
  /\ \A h \in Events : ~Unsettled(events[h])
  /\ state' = [w \in Versions |->
                 IF w = v THEN "activating"
                 ELSE IF w = active THEN "redundant" ELSE state[w]]
  /\ active' = v
  /\ activatePc' = "keys"
  /\ cacheNames' = <<>>
  /\ pending' = {}
  /\ deleted' = {}
  /\ UNCHANGED appVars
  /\ UNCHANGED <<caches, installPc, events>>

\* caches.keys() resolves; the callback maps every name to caches.delete
\* unless the whitelist holds it, and waits for all of them.
ActivateKeys(v) ==
  /\ state[v] = "activating"
  /\ activatePc = "keys"
  /\ cacheNames' = Keys(caches)
  /\ pending' = {n \in StoreNames(caches) : IsStale(v, n)}
  /\ activatePc' = "deleting"
  /\ UNCHANGED appVars
  /\ UNCHANGED <<caches, state, active, installPc, deleted, events>>

\* A cache object a handler holds leaves the storage when its store is deleted.
Orphan(e, n) ==
  IF e.pc = "put" /\ CACHE_NAME(e.gen) = n THEN [e EXCEPT !.live = FALSE] ELSE e

\* One caches.delete(cacheName) completes.
ActivateDelete(v, n) ==
  /\ state[v] = "activating"
  /\ activatePc = "deleting"
  /\ n \in pending
  /\ caches' = Delete(caches, n)
  /\ pending' = pending \ {n}
  /\ deleted' = deleted \cup {n}
  /\ events' = [h \in Events |-> Orphan(events[h], n)]
  /\ UNCHANGED appVars
  /\ UNCHANGED <<state, active, installPc, activatePc, cacheNames>>

\* Promise.all resolves, and with it the waitUntil promise.
ActivateDone(v) ==
  /\ state[v] = "activating"
  /\ activatePc = "deleting"
  /\ pending = {}
  /\ state' = [state EXCEPT ![v] = "activated"]
  /\ activatePc' = "idle"
  /\ cacheNames' = <<>>
  /\ deleted' = {}
  /\ UNCHANGED appVars
  /\ UNCHANGED <<caches, active, installPc, pending, events>>

\* -------------------------------------------------------- fetch listener
\* The respondWith promise of an event has settled.
Settled(e) == e.pc \in {"open", "put", "done"}

\* The host dispatches 'fetch' for request r to the activated version; the
\* listener calls caches.match(event.request) inside event.respondWith.
FetchStart(h, r) ==
  /\ events[h].pc = "idle"
  /\ IF h = 1 THEN TRUE ELSE events[h - 1].pc # "idle"
  /\ active # 0
  /\ state[active] = "activated"
  /\ events' = [events EXCEPT ![h] =
       [IdleEvent EXCEPT !.pc = "match1", !.req = r, !.gen = active,
          !.after = \E k \in Events : /\ Settled(events[k])
                                      /\ events[k].req = r
                                      /\ events[k].gen = active
                                      /\ events[k].net.status = 200
                                      /\ events[k].net.type = "basic"]]
  /\ UNCHANGED appVars
  /\ UNCHANGED <<caches, state, active, installPc, activatePc, cacheNames,
                 pending, deleted>>

\* OnMatch that goes to the network whatever the lookup gave (network-first).
OnMatchNetworkFirst(e, response) ==
  [e EXCEPT !.first = response, !.netCalls = @ + 1, !.pc = "net"]

\* if (response) return response; otherwise fetch(event.request)
OnMatch(e, response) ==
  IF response # undefined
    THEN [e EXCEPT !.first = response, !.result = response, !.pc = "done"]
    ELSE [e EXCEPT !.first = response, !.netCalls = @ + 1, !.pc = "net"]

\* The first caches.match resolves.
FetchMatch(h) ==
  /\ events[h].pc = "match1"
  /\ events' = [events EXCEPT ![h] = OnMatch(@, CachesMatch(caches, @.req))]
  /\ UNCHANGED appVars
  /\ UNCHANGED <<caches, state, active, installPc, activatePc, cacheNames,
                 pending, deleted>>

\* ShouldCache without the test of the response type.
ShouldCacheAnyType(fetchResponse) ==
  ~(fetchResponse = undefined \/ fetchResponse.status # 200)

\* The negation of the test
\* !fetchResponse || fetchResponse.status !== 200 || fetchResponse.type !== 'basic'
ShouldCache(fetchResponse) ==
  ~(fetchResponse = undefined \/ fetchResponse.status # 200
      \/ fetchResponse.type # "basic")

\* OnFetch whose callbacks take the outcome and never settle the promise.
OnFetchPending(e, out) == [e EXCEPT !.net = out]

\* The callbacks of fetch(event.request): a rejection goes to the catch
\* callback, which calls caches.match again; a response that is not to be
\* cached is returned; otherwise caches.open(CACHE_NAME) is called, its
\* promise is left alone, and fetchResponse is returned.
OnFetch(e, out) ==
  IF out = TypeError THEN [e EXCEPT !.net = out, !.pc = "match2"]
  ELSE IF ~ShouldCache(out) THEN [e EXCEPT !.net = out, !.result = out, !.pc = "done"]
  ELSE [e EXCEPT !.net = out, !.result = out, !.pc = "open"]

\* The network answers (or fails).
FetchNetwork(h, out) ==
  /\ events[h].pc = "net"
  /\ out \in NetworkOutcomes(events[h].req)
  /\ events' = [events EXCEPT ![h] = OnFetch(@, out)]
  /\ UNCHANGED appVars
  /\ UNCHANGED <<caches, state, active, installPc, activatePc, cacheNames,
                 pending, deleted>>

\* caches.open(CACHE_NAME) resolves; the callback calls
\* cache.put(event.request, responseToCache).
FetchOpen(h) ==
  /\ events[h].pc = "open"
  /\ caches' = Open(caches, CACHE_NAME(events[h].gen))
  /\ events' = [events EXCEPT ![h] = [@ EXCEPT !.pc = "put", !.live = TRUE]]
  /\ UNCHANGED appVars
  /\ UNCHANGED <<state, active, installPc, activatePc, cacheNames, pending,
                 deleted>>

\* cache.put completes.
FetchPut(h) ==
  /\ events[h].pc = "put"
  /\ caches' = IF events[h].live
                 THEN Put(caches, CACHE_NAME(events[h].gen), events[h].req,
                          Stored(events[h].net, events[h].gen, "fetch"))
                 ELSE caches
  /\ events' = [events EXCEPT ![h] = [@ EXCEPT !.pc = "done", !.wrote = events[h].live]]
  /\ UNCHANGED appVars
  /\ UNCHANGED <<state, active, installPc, activatePc, cacheNames, pending,
                 deleted>>

\* Fallback that gives up without a second lookup.
FallbackNone(cs, r) == undefined

\* return caches.match(event.request) of the catch callback
Fallback(cs, r) == CachesMatch(cs, r)

\* The second caches.match resolves: a miss gives the page a failed fetch.
FetchFallback(h) ==
  /\ events[h].pc = "match2"
  /\ LET response == Fallback(caches, events[h].req)
     IN events' = [events EXCEPT ![h] =
          [@ EXCEPT !.second = response, !.result = response, !.pc = "done"]]
  /\ UNCHANGED appVars
  /\ UNCHANGED <<caches, state, active, installPc, activatePc, cacheNames,
                 pending, deleted>>

\* The host terminates a worker that has been replaced: what its handlers
\* left running after their response may never run.
FetchTerminated(h) ==
  /\ events[h].pc \in {"open", "put"}
  /\ state[events[h].gen] = "redundant"
  /\ events' = [events EXCEPT ![h] = [@ EXCEPT !.pc = "done"]]
  /\ UNCHANGED appVars
  /\ UNCHANGED <<caches, state, active, installPc, activatePc, cacheNames,
                 pending, deleted>>

Next ==
  \/ \E v \in Versions : InstallStart(v)
  \/ \E v \in Versions : InstallOpen(v)
  \/ \E v \in Versions : \E outs \in AddAllOutcomes(v) : InstallAddAll(v, outs)
  \/ \E v \in Versions : ActivateStart(v)
  \/ \E v \in Versions : ActivateKeys(v)
  \/ \E v \in Versions : \E n \in pending : ActivateDelete(v, n)
  \/ \E v \in Versions : ActivateDone(v)
  \/ \E h \in Events : \E r \in FetchRequests : FetchStart(h, r)
  \/ \E h \in Events : FetchMatch(h)
  \/ \E h \in Events : \E out \in NetworkOutcomes(events[h].req) : FetchNetwork(h, out)
  \/ \E h \in Events : FetchOpen(h)
  \/ \E h \in Events : FetchPut(h)
  \/ \E h \in Events : FetchFallback(h)
  \/ \E h \in Events : FetchTerminated(h)

Spec == Init /\ [][Next]_vars

\* --------------------------------------------------------- page controller
\* showPage removes 'active' from every element of class 'page' ...
ActiveAfterKeeping(act, pageId) == act \cup ({pageId} \cap Pages)

\* ... and adds it to the element with the id, when there is one.
ActiveAfter(act, pageId) == (act \ Pages) \cup ({pageId} \cap Pages)

\* showPage remembers every id but the viewer's.
RememberPage(prev, pageId) == IF pageId # "viewer-page" THEN pageId ELSE prev

\* The effect of one showPage(pageId) call, with its history.
showPage(pageId) ==
  /\ activePages' = ActiveAfter(activePages, pageId)
  /\ previousPage' = RememberPage(previousPage, pageId)
  /\ shown' = pageId
  /\ lastShown' = IF pageId = "viewer-page" THEN lastShown ELSE pageId

\* A navigation control calls showPage(pageId).
ShowPage(pageId) ==
  /\ showPage(pageId)
  /\ justClosed' = FALSE
  /\ UNCHANGED <<pdfDoc, currentPage, scale, loading, closed>>
  /\ UNCHANGED workerVars

\* openDocument(documentPath): the viewer page is shown; for a PDF the page
\* number is set back to 1 and loadPDF is started (it stays pending).
OpenDocument(doc) ==
  /\ doc.extension = "pdf" => Len(loading) < MaxLoads
  /\ showPage("viewer-page")
  /\ IF doc.extension = "pdf"
       THEN /\ currentPage' = 1
            /\ loading' = Append(loading, doc)
       ELSE UNCHANGED <<currentPage, loading>>
  /\ closed' = FALSE
  /\ justClosed' = FALSE
  /\ UNCHANGED <<pdfDoc, scale>>
  /\ UNCHANGED workerVars

Without(seq, i) == [j \in 1..(Len(seq) - 1) |-> IF j < i THEN seq[j] ELSE seq[j + 1]]

\* loadPDF continues after its await: the document is stored.  Loads of
\* different documents complete in any order.
LoadPDFResolved(i) ==
  /\ i \in 1..Len(loading)
  /\ pdfDoc' = [numPages |-> loading[i].numPages]
  /\ loading' = Without(loading, i)
  /\ UNCHANGED <<previousPage, activePages, currentPage, scale, shown, lastShown,
                 closed, justClosed>>
  /\ UNCHANGED workerVars

\* The load fails: loadPDF's catch reports it and changes nothing.
LoadPDFRejected(i) ==
  /\ i \in 1..Len(loading)
  /\ loading' = Without(loading, i)
  /\ UNCHANGED <<previousPage, activePages, pdfDoc, currentPage, scale, shown,
                 lastShown, closed, justClosed>>
  /\ UNCHANGED workerVars

nextPage ==
  IF pdfDoc = null \/ currentPage >= pdfDoc.numPages THEN currentPage ELSE currentPage + 1

prevPage ==
  IF pdfDoc = null \/ currentPage <= 1 THEN currentPage ELSE currentPage - 1

NextPage ==
  /\ currentPage' = nextPage
  /\ UNCHANGED <<previousPage, activePages, pdfDoc, scale, loading, shown, lastShown,
                 closed, justClosed>>
  /\ UNCHANGED workerVars

PrevPage ==
  /\ currentPage' = prevPage
  /\ UNCHANGED <<previousPage, activePages, pdfDoc, scale, loading, shown, lastShown,
                 closed, justClosed>>
  /\ UNCHANGED workerVars

zoomInUnguarded(doc, sc) == IF sc < MAX_SCALE THEN sc + SCALE_STEP ELSE sc

zoomIn(doc, sc) ==
  IF doc = null THEN sc
  ELSE IF sc < MAX_SCALE THEN sc + SCALE_STEP ELSE sc

zoomOut(doc, sc) ==
  IF doc = null THEN sc
  ELSE IF sc > MIN_SCALE THEN sc - SCALE_STEP ELSE sc

ZoomIn ==
  /\ scale' = zoomIn(pdfDoc, scale)
  /\ UNCHANGED <<previousPage, activePages, pdfDoc, currentPage, loading, shown,
                 lastShown, closed, justClosed>>
  /\ UNCHANGED workerVars

ZoomOut ==
  /\ scale' = zoomOut(pdfDoc, scale)
  /\ UNCHANGED <<previousPage, activePages, pdfDoc, currentPage, loading, shown,
                 lastShown, closed, justClosed>>
  /\ UNCHANGED workerVars

\* closeDocument: the PDF state is cleared and the remembered page shown.  A
\* loadPDF still pending is not cancelled.
CloseDocument ==
  /\ pdfDoc' = null
  /\ currentPage' = 1
  /\ scale' = INITIAL_SCALE
  /\ showPage(previousPage)
  /\ closed' = TRUE
  /\ justClosed' = TRUE
  /\ UNCHANGED loading
  /\ UNCHANGED workerVars

AppNext ==
  \/ \E pageId \in PageIds : ShowPage(pageId)
  \/ \E doc \in DocumentPaths : OpenDocument(doc)
  \/ \E i \in 1..MaxLoads : LoadPDFResolved(i)
  \/ \E i \in 1..MaxLoads : LoadPDFRejected(i)
  \/ NextPage
  \/ PrevPage
  \/ ZoomIn
  \/ ZoomOut
  \/ CloseDocument

AppSpec == Init /\ [][AppNext]_vars

\* ================================================================ claims
Ok(resp) == resp.status >= 200 /\ resp.status <= 299
NonQualifying(resp) == resp.status # 200 \/ resp.type # "basic"
\* What the stores hold for request r.
Held(cs, r) == {cs[i].entries[r] : i \in 1..Len(cs)} \ {undefined}
\* The event has left its first lookup behind.
Looked(e) == e.pc \notin {"idle", "match1"}

\* C1: once the install of version v has completed successfully (the version
\* is installed, activating or activated), a lookup of every manifest path
\* in the store named CACHE_NAME(v) returns a response with a success status.
C1_InstallPopulatesManifest ==
  \A v \in Versions :
    state[v] \in {"installed", "activating", "activated"} =>
      \A i \in 1..Len(urlsToCache) :
        LET response == Lookup(caches, CACHE_NAME(v), urlsToCache[i])
        IN response # undefined /\ Ok(response)

C1_Witness ==
  \E v \in Versions :
    /\ state[v] = "installed"
    /\ Lookup(caches, CACHE_NAME(v), urlsToCache[1]).status = 204
    /\ Lookup(caches, CACHE_NAME(v), urlsToCache[5]).status = 200

\* C2: when the install of version v fails on a manifest entry, its
\* waitUntil promise rejects: the version becomes redundant without having
\* been the active worker, it stays redundant, and its store holds none of
\* the manifest entries.
C2_InstallAllOrNothing ==
  [][\A v \in Versions :
       /\ (state[v] = "installing" /\ state'[v] = "redundant") =>
            /\ active' # v
            /\ \A h \in Events : events'[h].gen # v
            /\ \A p \in Manifest : Lookup(caches', CACHE_NAME(v), p) = undefined
       /\ state[v] = "redundant" => state'[v] = "redundant"]_vars

C2_Witness ==
  /\ state[1] = "redundant"
  /\ active = 0
  /\ StoreNames(caches) = {CACHE_NAME(1)}
  /\ \A p \in Manifest : Lookup(caches, CACHE_NAME(1), p) = undefined

\* C3: a fetch event whose first lookup found an entry is answered with that
\* entry, issues no network request and writes nothing to a store.
C3_CacheFirst ==
  \A h \in Events :
    (Looked(events[h]) /\ events[h].first # undefined) =>
      /\ events[h].pc = "done"
      /\ events[h].result = events[h].first
      /\ events[h].netCalls = 0
      /\ events[h].net = undefined
      /\ ~events[h].wrote

C3_Witness ==
  \E h \in Events :
    /\ events[h].pc = "done"
    /\ events[h].req \in Documents
    /\ events[h].first # undefined
    /\ events[h].first.via = "fetch"

\* C4: an event for a request whose network response (status 200, type
\* basic) had already been returned to the page by an earlier event of the
\* same generation is served from the cache without a network call.
C4_SecondRequestFromCache ==
  \A h \in Events :
    (events[h].after /\ Looked(events[h])) =>
      events[h].first # undefined /\ events[h].netCalls = 0

\* C5: a network response with a status other than 200 or a type other than
\* 'basic' is returned unchanged and written to no store: no store holds an
\* entry a fetch handler wrote from such a response, and every event for
\* such a resource makes its own network call.
C5_NonQualifyingNeverCached ==
  /\ \A h \in Events :
       (events[h].net \notin {undefined, TypeError} /\ NonQualifying(events[h].net)) =>
         /\ events[h].pc = "done"
         /\ events[h].result = events[h].net
         /\ events[h].netCalls = 1
         /\ ~events[h].wrote
  /\ \A i \in 1..Len(caches) : \A r \in Requests :
       LET response == caches[i].entries[r]
       IN /\ (response # undefined /\ response.via = "fetch") => ~NonQualifying(response)
          /\ r \in CrossOrigin => response = undefined
  /\ \A h \in Events :
       (events[h].req \in CrossOrigin /\ Looked(events[h])) => events[h].netCalls = 1

C5_Witness ==
  /\ \A h \in {1, 2} :
       /\ events[h].pc = "done"
       /\ events[h].req \in CrossOrigin
       /\ events[h].net = Resp(200, "cors", 1)
       /\ events[h].netCalls = 1
  /\ events[1].result = Resp(200, "cors", 1)

\* C6: when the first lookup missed and the network request failed, the
\* handler looks the request up a second time; the event is answered with an
\* entry the stores hold at that time if there is one, and with a failed
\* fetch (no response) if there is none.
C6_FallbackLookup ==
  [][\A h \in Events :
       /\ (events[h].pc = "net" /\ events'[h].net = TypeError) =>
            events'[h].pc = "match2"
       /\ (events[h].pc = "match2" /\ events'[h].pc # "match2") =>
            /\ events'[h].pc = "done"
            /\ IF Held(caches, events[h].req) = {}
                 THEN events'[h].result = undefined
                 ELSE events'[h].result \in Held(caches, events[h].req)]_vars

C6_Witness ==
  \E h \in Events :
    /\ events[h].pc = "done"
    /\ events[h].first = undefined
    /\ events[h].net = TypeError
    /\ events[h].result # undefined
    /\ events[h].result = events[h].second

\* The contents the network returned (status 200, type basic) to the other
\* events of the same request and generation.
ReturnedBodies(h) ==
  {events[k].net.body : k \in {j \in Events : /\ j # h
                                               /\ events[j].req = events[h].req
                                               /\ events[j].gen = events[h].gen
                                               /\ ~NonQualifying(events[j].net)}}

\* C7: a document fetched successfully while online, by an event that has
\* completed, is returned with the same content when the same request is
\* issued in the same generation while the network is unavailable.
C7_OnlineThenOffline ==
  \A h \in Events :
    (events[h].after /\ events[h].pc = "done" /\ events[h].net = TypeError) =>
      /\ events[h].result # undefined
      /\ events[h].result.body \in ReturnedBodies(h)

\* C8: when the activate handler of version v completes (every delete it
\* started has completed), every store of its enumeration with a name other
\* than CACHE_NAME(v) has been deleted, and the store named CACHE_NAME(v) has
\* not: it is there with its entries.
C8_ActivateDeletesStale ==
  \A v \in Versions :
    (state[v] = "activating" /\ activatePc = "deleting" /\ pending = {}) =>
      /\ \A i \in 1..Len(cacheNames) :
           cacheNames[i] # CACHE_NAME(v) => cacheNames[i] \in deleted
      /\ CACHE_NAME(v) \notin deleted
      /\ CACHE_NAME(v) \in StoreNames(caches)
      /\ \A p \in Manifest : Lookup(caches, CACHE_NAME(v), p) # undefined

C8_Witness ==
  \E v \in Versions :
    /\ state[v] = "activating" /\ activatePc = "deleting" /\ pending = {}
    /\ Len(cacheNames) = 2
    /\ Cardinality(deleted) = 1
    /\ StoreNames(caches) = {CACHE_NAME(v)}

\* C9: once the activation of generation G2 has completed, no store named
\* by an earlier generation G1 exists and no lookup returns an entry stored
\* under G1.
C9_OldGenerationGone ==
  \A g1, g2 \in Versions :
    (g1 < g2 /\ state[g2] = "activated") =>
      /\ CACHE_NAME(g1) \notin StoreNames(caches)
      /\ \A r \in Requests : CachesMatch(caches, r).by # g1

\* C10: a cached response an event is answered with, by the first lookup or
\* by the fallback lookup, comes from the store named by the generation tag
\* of the worker handling the event.
C10_OnlyCurrentStore ==
  \A h \in Events :
    (Looked(events[h]) /\ events[h].result.via \in {"install", "fetch"}) =>
      events[h].result.by = events[h].gen

\* C11: no cache or network operation of a fetch handler is still running
\* once the promise it gave to respondWith has settled: when the network
\* response is to be cached, the promise does not resolve before the cache
\* write has completed.
C11_WriteCoveredByPromise ==
  \A h \in Events : Settled(events[h]) => events[h].pc = "done"

\* What the store named n answers to cache.match for every request (nothing
\* when there is no such store).
EntriesOf(cs, n) ==
  IF \E i \in 1..Len(cs) : cs[i].name = n
    THEN cs[CHOOSE i \in 1..Len(cs) : cs[i].name = n].entries
    ELSE EmptyEntries

\* C14: a fetch handler for request r changes the stores at most by adding
\* or overwriting the entry keyed by r in the store named by the tag of its
\* worker; entries are removed only when an activation deletes their whole
\* store (the only other writer is the batch write of an install, into the
\* store of the installing version).
C14_FetchFrame ==
  [][caches' # caches =>
       /\ \A v \in Versions :
            LET old == EntriesOf(caches, CACHE_NAME(v))
                new == EntriesOf(caches', CACHE_NAME(v))
            IN new # old =>
                 \A r \in Requests :
                   new[r] # old[r] =>
                     \/ /\ state[v] = "installing" /\ state'[v] = "installed"
                        /\ r \in Manifest
                        /\ new[r] # undefined
                     \/ /\ CACHE_NAME(v) \in deleted' \ deleted
                        /\ CACHE_NAME(v) \notin StoreNames(caches')
                     \/ \E h \in Events :
                          /\ events[h].pc = "put" /\ events'[h].pc = "done"
                          /\ events[h].req = r
                          /\ events[h].gen = v
                          /\ new[r] = Stored(events[h].net, v, "fetch")
       /\ (StoreNames(caches) \ StoreNames(caches')) \subseteq (deleted' \ deleted)]_vars

C14_Witness ==
  \E h \in Events :
    /\ events[h].pc = "done" /\ events[h].wrote
    /\ Lookup(caches, CACHE_NAME(events[h].gen), events[h].req)
         = Stored(events[h].net, events[h].gen, "fetch")
    /\ \A p \in Manifest : Lookup(caches, CACHE_NAME(events[h].gen), p) # undefined

\* The worker in its steady state: version 1 installed with every manifest
\* path served, and activated; the page issues requests.
SteadyInit ==
  /\ caches = AddAllCommit(Open(<<>>, CACHE_NAME(1)), 1,
                           [i \in 1..Len(urlsToCache) |-> Resp(200, "basic", 1)])
  /\ state = [v \in Versions |-> IF v = 1 THEN "activated" ELSE "parsed"]
  /\ active = 1
  /\ installPc = "idle"
  /\ activatePc = "idle"
  /\ cacheNames = <<>>
  /\ pending = {}
  /\ deleted = {}
  /\ events = [h \in Events |-> IdleEvent]
  /\ AppInit

SteadyNext ==
  \/ \E h \in Events : \E r \in FetchRequests : FetchStart(h, r)
  \/ \E h \in Events : FetchMatch(h)
  \/ \E h \in Events : \E out \in NetworkOutcomes(events[h].req) : FetchNetwork(h, out)
  \/ \E h \in Events : FetchOpen(h)
  \/ \E h \in Events : FetchPut(h)
  \/ \E h \in Events : FetchFallback(h)

\* The scheduling the host guarantees to a fetch event: a lookup that was
\* started resolves, and (the assumption of C15) the network request that
\* was issued gets an outcome.
FetchFairness ==
  \A h \in Events :
    /\ WF_vars(FetchMatch(h))
    /\ WF_vars(\E out \in NetworkOutcomes(events[h].req) : FetchNetwork(h, out))
    /\ WF_vars(FetchFallback(h))

\* The whole lifecycle, and the steady state, under that scheduling.
FairSpec == Spec /\ FetchFairness
FairSteadySpec == SteadyInit /\ [][SteadyNext]_vars /\ FetchFairness

\* C15: provided the network request, if one is issued, gets an outcome,
\* every fetch event is eventually answered (with a cached response, the
\* network's response or a failed fetch); and an event waiting for the
\* network leaves that position by nothing but an outcome of the network
\* (there is no timeout).
C15_FetchResolves ==
  /\ \A h \in Events : Unsettled(events[h]) ~> Settled(events[h])
  /\ [][\A h \in Events :
          (events[h].pc = "net" /\ events'[h] # events[h]) =>
            events'[h].net \in NetworkOutcomes(events[h].req)]_vars

C15_Witness ==
  \E h \in Events :
    /\ events[h].pc = "done"
    /\ events[h].netCalls = 1
    /\ events[h].net = TypeError
    /\ events[h].result = undefined

\* C12: previousPage is never 'viewer-page', and right after closeDocument
\* the active page is the page last given to showPage under an id other
\* than 'viewer-page' ('home-page' when there was none).
C12_ReturnsToPriorPage ==
  /\ previousPage # "viewer-page"
  /\ justClosed => activePages = {lastShown}

\* C13: while the viewer is closed (closeDocument ran and openDocument was
\* not called since) pdfDoc is null, currentPage is 1 and scale is 1.5,
\* also when a loadPDF was pending at the close.
C13_ResetOnClose ==
  closed => /\ pdfDoc = null
            /\ currentPage = 1
            /\ scale = INITIAL_SCALE

\* C16: whenever a document is loaded, 1 <= currentPage <= pdfDoc.numPages.
C16_CurrentPageInRange ==
  pdfDoc # null => (1 <= currentPage /\ currentPage <= pdfDoc.numPages)

\* C17: scale stays within [MIN_SCALE, MAX_SCALE] and is 1.5 plus a whole
\* number of steps; with no document loaded zooming leaves it where
\* closeDocument (or the start) put it.
C17_ScaleBounded ==
  /\ MIN_SCALE <= scale /\ scale <= MAX_SCALE
  /\ (scale - INITIAL_SCALE) % SCALE_STEP = 0
  /\ pdfDoc = null => scale = INITIAL_SCALE

C17_Witness ==
  /\ scale = MAX_SCALE
  /\ pdfDoc # null

\* C18: after a showPage(pageId) call at most one page is active: the page
\* with that id when there is one, none otherwise; the id is remembered in
\* previousPage in both cases unless it is 'viewer-page'.
C18_OnePageActive ==
  shown # "" =>
    /\ Cardinality(activePages) <= 1
    /\ activePages = {p \in Pages : p = shown}
    /\ shown # "viewer-page" => previousPage = shown

C18_Witness ==
  /\ shown = "missing-page"
  /\ activePages = {}
  /\ previousPage = "missing-page"

====
